---- MODULE Spec2Model ----
(***************************************************************************)
(* Model of the platform explorer's entry point (src/src/main.rs):         *)
(*   - the startup sequence: state initialization, the balance handed to   *)
(*     the UI, the funding precheck (--dash) and the strategy run (--test) *)
(*   - the main loop: the select! over the terminal event stream, the      *)
(*     in-flight backend task and the debounced redraw timer.              *)
(* Options are encoded as sequences: None is <<>>, Some(x) is <<x>>.       *)
(* u64 values are little-endian sequences of base-256 limbs, kept wide     *)
(* enough (WideLimbs) to hold an exact product before it is cut to 64 bit. *)
(***************************************************************************)
EXTENDS Integers, Sequences, FiniteSets, TLC

None == <<>>
Some(x) == <<x>>
IsSome(o) == o # <<>>
Unwrap(o) == o[1]

(***************************************************************************)
(* u64 arithmetic                                                          *)
(***************************************************************************)
LimbBase == 256
U64Limbs == 8
WideLimbs == 16

RECURSIVE ToLimbs(_, _)
ToLimbs(n, k) ==
    IF k = 0 THEN <<>> ELSE <<n % LimbBase>> \o ToLimbs(n \div LimbBase, k - 1)

Big(n) == ToLimbs(n, WideLimbs)

RECURSIVE AddLimbs(_, _, _, _)
AddLimbs(a, b, i, carry) ==
    IF i > WideLimbs THEN <<>>
    ELSE LET t == a[i] + b[i] + carry
         IN <<t % LimbBase>> \o AddLimbs(a, b, i + 1, t \div LimbBase)

BigAdd(a, b) == AddLimbs(a, b, 1, 0)

RECURSIVE SubLimbs(_, _, _, _)
SubLimbs(a, b, i, borrow) ==
    IF i > WideLimbs THEN <<>>
    ELSE LET t == a[i] - b[i] - borrow
         IN <<t % LimbBase>> \o SubLimbs(a, b, i + 1, IF t < 0 THEN 1 ELSE 0)

BigSub(a, b) == SubLimbs(a, b, 1, 0)

RECURSIVE ColumnSum(_, _, _, _)
ColumnSum(a, b, k, i) ==
    IF i > k THEN 0 ELSE a[i] * b[k + 1 - i] + ColumnSum(a, b, k, i + 1)

RECURSIVE MulLimbs(_, _, _, _)
MulLimbs(a, b, k, carry) ==
    IF k > WideLimbs THEN <<>>
    ELSE LET t == ColumnSum(a, b, k, 1) + carry
         IN <<t % LimbBase>> \o MulLimbs(a, b, k + 1, t \div LimbBase)

BigMul(a, b) == MulLimbs(a, b, 1, 0)

RECURSIVE LessFrom(_, _, _)
LessFrom(a, b, i) ==
    IF i = 0 THEN FALSE
    ELSE IF a[i] # b[i] THEN a[i] < b[i]
    ELSE LessFrom(a, b, i - 1)

BigLess(a, b) == LessFrom(a, b, WideLimbs)

RECURSIVE DivLimbs(_, _, _, _)
DivLimbs(a, d, i, rem) ==
    IF i = 0 THEN <<>>
    ELSE LET t == rem * LimbBase + a[i]
         IN DivLimbs(a, d, i - 1, t % d) \o <<t \div d>>

BigDiv(a, d) == DivLimbs(a, d, WideLimbs, 0)

Zero == Big(0)
FitsU64(a) == \A i \in (U64Limbs + 1)..WideLimbs : a[i] = 0
WrapU64(a) == [i \in 1..WideLimbs |-> IF i <= U64Limbs THEN a[i] ELSE 0]
U64Max == [i \in 1..WideLimbs |-> IF i <= U64Limbs THEN LimbBase - 1 ELSE 0]

\* The literals of main.rs.
DuffsPerDash == Big(100000000)
CreditsPerDash == BigMul(Big(100000), Big(1000000))
CreditsPerDuff == 1000

\* a * b and a - b on u64: the value the build produces, and whether the
\* exact result left the u64 range (a panic when overflow checks are on).
MulOverflows(a, b) == ~FitsU64(BigMul(a, b))
MulU64(a, b) == WrapU64(BigMul(a, b))
SubOverflows(a, b) == BigLess(a, b)
SubU64(a, b) == WrapU64(BigSub(a, b))

(***************************************************************************)
(* Tasks                                                                   *)
(***************************************************************************)
RegisterIdentity(amount) == <<"Identity", "RegisterIdentity", amount>>
TopUpIdentity(amount) == <<"Identity", "TopUpIdentity", amount>>
IdentityRefresh == <<"Identity", "Refresh">>
WalletRefresh == <<"Wallet", "Refresh">>
RunStrategy == <<"Strategy", "RunStrategy">>

IsRegisterIdentity(t) == t[1] = "Identity" /\ t[2] = "RegisterIdentity"
IsTopUpIdentity(t) == t[1] = "Identity" /\ t[2] = "TopUpIdentity"

(***************************************************************************)
(* Inputs of the startup sequence                                          *)
(***************************************************************************)
MaxId == 2
Ids == 1..MaxId

\* --dash values: the spec's scenario (5), the smallest one (1), one whose
\* floor d * 10^11 leaves u64 and one whose d * 10^8 leaves u64 as well.
DashFloorOverflow == Big(184467441)
DashDuffsOverflow == BigAdd(BigMul(Big(184467), Big(1000000)), Big(440738))
DashArgs == {Big(1), Big(5), DashFloorOverflow, DashDuffsOverflow}

Floor5 == BigMul(Big(5), CreditsPerDash)
Floor1 == CreditsPerDash

\* Balances the persisted identity can have, and balances a refresh can
\* report: around the floors of the --dash values 1 and 5.
PersistedBalances == {Zero, BigMul(Big(2), CreditsPerDash), Floor5}
RefreshedBalances ==
    { Zero, BigMul(Big(2), CreditsPerDash),
      BigSub(Floor5, Big(1500)), BigSub(Floor5, Big(1)), Floor5,
      BigSub(Floor1, Big(1)), U64Max }

Identity(id, balance) == [id |-> id, balance |-> balance]
PersistedIdentities == {Identity(i, b) : i \in Ids, b \in PersistedBalances}
KnownBalances == {Zero, Floor5}
StrategyNames == {"strategy"}

VARIABLES
    args_dash,                  \* Option<u64>: --dash
    args_test,                  \* Option<String>: --test
    overflow_checks,            \* the build panics on u64 overflow (debug) or wraps
    loaded_identity,            \* Option<Identity>
    known_identities,           \* id -> Option<Identity>
    selected_strategy,          \* Option<String>
    guards,                     \* the state fields whose lock main holds
    persisted,                  \* the state as Backend::new left it (history)
    initial_identity_balance,   \* Option<balance>, read before the CLI commands
    pc,                         \* position of main
    running,                    \* Option<Task>: the task main is awaiting
    issued,                     \* tasks started so far, in order (history)
    completed,                  \* tasks that ran to completion, in order (history)
    balance,                    \* Option<u64>: the local read at main.rs:155
    ui_launched_with,           \* Option<Option<balance>>: argument of Ui::new
    active,                     \* the loop condition
    backend_task,               \* OptionFuture: the in-flight backend task
    ui_debounced_redraw,        \* OptionFuture: the debounce timer
    now,                        \* the clock, in milliseconds
    terminal_event,             \* Option: the item the stream yielded to the last select!
    event,                      \* Option<Event>: result of the last select!
    ui_feedback,                \* Option<UiFeedback> of the last iteration
    forwarded,                  \* Option<Event>: what the last iteration gave ui.on_event
    rendered,                   \* why the last iteration called ui.redraw, or "no"
    dispatched,                 \* tasks of the ExecuteTask feedbacks, in order (history)
    delivered,                  \* per dispatch, the Event::Backend given to the UI (history)
    pending_futures,            \* dispatches whose future exists and has not finished
    last_redraw_at,             \* time of the last Redraw feedback (history)
    bursts,                     \* Redraw feedbacks that found no timer pending (history)
    redraws_in_burst,           \* Redraw feedbacks of the current or last burst (history)
    timer_renders,              \* renders caused by the debounce timer (history)
    fetch_pc,                   \* position of fetch_identity_bytes_by_b58_id
    b58_id,                     \* Option<String>: its argument
    fetch_requests,             \* requests the current call has sent
    fetch_response,             \* Option: what request.execute resolved to
    fetch_result,               \* Option<Result<Vec<u8>, Error>>: what the call returned
    fetch_calls,                \* calls made so far (history)
    thread_blocked,             \* the calling thread is parked inside block_on
    inputs_taken,               \* input events the calling thread has handled (history)
    screen_kind,                \* which screen controller is active
    info,                       \* system-contracts screen: the Info widget
    current_batch,              \* contested-resources screen: the resources
    list_index,                 \* contested-resources screen: selected row of the List
    resource_view,              \* contested-resources screen: the Info widget
    has_contested_index,        \* the document type has a contested index
    screen_pc,                  \* "running", or "panicked" after an expect() failed
    screen_event,               \* Option<Event>: the last event given to on_event
    screen_feedback,            \* Option<ScreenFeedback>: what on_event returned for it
    screen_changed,             \* the last on_event changed what the screen displays
    screen_task,                \* Option<Task>: the task this screen dispatched, in flight
    run_state,                  \* strategy run: Idle, Running, Done or Aborted
    strategy_known,             \* the strategy name is a registered one
    block_count,                \* strategy run: number of blocks asked for
    address_count,              \* size of the address list
    block,                      \* strategy run: the block being submitted
    block_pc,                   \* strategy run: "submit" or "advance"
    tried,                      \* addresses tried for the current block, in order
    failed,                     \* blocks recorded as failed
    executed                    \* blocks whose submission was attempted

startup_vars ==
    <<args_dash, args_test, overflow_checks, loaded_identity, known_identities,
      selected_strategy, guards, persisted, initial_identity_balance, pc,
      running, issued, completed, balance, ui_launched_with>>

loop_vars ==
    <<active, backend_task, ui_debounced_redraw, now, terminal_event, event,
      ui_feedback, forwarded, rendered, dispatched, delivered, pending_futures,
      last_redraw_at, bursts, redraws_in_burst, timer_renders>>

fetch_vars ==
    <<fetch_pc, b58_id, fetch_requests, fetch_response, fetch_result,
      fetch_calls, thread_blocked, inputs_taken>>

screen_vars ==
    <<screen_kind, info, current_batch, list_index, resource_view,
      has_contested_index, screen_pc, screen_event, screen_feedback,
      screen_changed, screen_task>>

strategy_vars ==
    <<run_state, strategy_known, block_count, address_count, block, block_pc,
      tried, failed, executed>>

other_vars == <<fetch_vars, screen_vars, strategy_vars>>

vars == <<startup_vars, loop_vars, other_vars>>

\* No call of fetch_identity_bytes_by_b58_id is under way.
FetchIdle ==
    /\ fetch_pc = "idle"
    /\ b58_id = None
    /\ fetch_requests = 0
    /\ fetch_response = None
    /\ fetch_result = None
    /\ fetch_calls = 0
    /\ thread_blocked = FALSE
    /\ inputs_taken = 0

\* No screen of the two modelled ones is open.
ScreenIdle ==
    /\ screen_kind = "none"
    /\ info = "none"
    /\ current_batch = <<>>
    /\ list_index = 0
    /\ resource_view = ""
    /\ has_contested_index = TRUE
    /\ screen_pc = "running"
    /\ screen_event = None
    /\ screen_feedback = None
    /\ screen_changed = FALSE
    /\ screen_task = None

\* No strategy run is under way.
StrategyIdle ==
    /\ run_state = "Idle"
    /\ strategy_known = TRUE
    /\ block_count = 0
    /\ address_count = 1
    /\ block = 0
    /\ block_pc = "submit"
    /\ tried = <<>>
    /\ failed = {}
    /\ executed = {}

\* Bounds of the main loop's model.
MaxDispatch == 2
MaxTime == 12
MaxBurst == 2

\* main.rs:231
DebounceMs == 10

\* main.rs:193-197: the loop's locals before the first iteration.
LoopLocalsInit ==
    /\ active = TRUE
    /\ backend_task = None
    /\ ui_debounced_redraw = None
    /\ now = 0
    /\ terminal_event = None
    /\ event = None
    /\ ui_feedback = None
    /\ forwarded = None
    /\ rendered = "no"
    /\ dispatched = <<>>
    /\ delivered = [i \in 1..MaxDispatch |-> 0]
    /\ pending_futures = {}
    /\ last_redraw_at = 0
    /\ bursts = 0
    /\ redraws_in_burst = 0
    /\ timer_renders = 0

StartupInit ==
    /\ LoopLocalsInit
    /\ FetchIdle
    /\ ScreenIdle
    /\ StrategyIdle
    /\ args_dash \in {None} \cup {Some(d) : d \in DashArgs}
    /\ args_test \in {None} \cup {Some(n) : n \in StrategyNames}
    /\ overflow_checks \in BOOLEAN
    /\ loaded_identity \in {None} \cup {Some(i) : i \in PersistedIdentities}
    /\ \E kb \in [Ids -> {None} \cup {Some(b) : b \in KnownBalances}] :
         known_identities =
           [i \in Ids |-> IF IsSome(kb[i]) THEN Some(Identity(i, Unwrap(kb[i])))
                                         ELSE None]
    /\ selected_strategy \in {None} \cup {Some(n) : n \in StrategyNames}
    /\ guards = {}
    /\ persisted = [loaded_identity |-> loaded_identity,
                    known_identities |-> known_identities,
                    selected_strategy |-> selected_strategy]
    /\ initial_identity_balance = None
    /\ pc = "lock_loaded_identity"
    /\ running = None
    /\ issued = <<>>
    /\ completed = <<>>
    /\ balance = None
    /\ ui_launched_with = None

(***************************************************************************)
(* Backend::run_task: what a completed task may have done to the loaded    *)
(* identity.  A task can fail and leave the state as it was.               *)
(***************************************************************************)
Credited(b, amount) == BigAdd(b, BigMul(amount, Big(CreditsPerDuff)))

RunTaskOutcomes(task, li) ==
    IF IsRegisterIdentity(task) THEN
        {li} \cup {Some(Identity(1, WrapU64(Credited(Zero, task[3]))))}
    ELSE IF IsTopUpIdentity(task) THEN
        {li} \cup IF IsSome(li) /\ FitsU64(Credited(Unwrap(li).balance, task[3]))
                  THEN {Some(Identity(Unwrap(li).id,
                                      Credited(Unwrap(li).balance, task[3])))}
                  ELSE {}
    ELSE IF task = IdentityRefresh /\ IsSome(li) THEN
        {Some(Identity(Unwrap(li).id, b)) : b \in RefreshedBalances}
    ELSE {li}

(***************************************************************************)
(* Startup: main.rs:109-191                                                *)
(***************************************************************************)
Goto(label) == pc' = label

\* main.rs:113-115: the three guards are taken one after the other, each
\* lock().await with the earlier guards still held.
LockLoadedIdentity ==
    /\ pc = "lock_loaded_identity"
    /\ "loaded_identity" \notin guards
    /\ guards' = guards \cup {"loaded_identity"}
    /\ Goto("lock_selected_strategy")
    /\ UNCHANGED <<other_vars, loop_vars, args_dash, args_test, overflow_checks, loaded_identity,
                   known_identities, selected_strategy, persisted,
                   initial_identity_balance, running, issued, completed,
                   balance, ui_launched_with>>

LockSelectedStrategy ==
    /\ pc = "lock_selected_strategy"
    /\ "selected_strategy" \notin guards
    /\ guards' = guards \cup {"selected_strategy"}
    /\ Goto("lock_known_identities")
    /\ UNCHANGED <<other_vars, loop_vars, args_dash, args_test, overflow_checks, loaded_identity,
                   known_identities, selected_strategy, persisted,
                   initial_identity_balance, running, issued, completed,
                   balance, ui_launched_with>>

LockKnownIdentities ==
    /\ pc = "lock_known_identities"
    /\ "known_identities" \notin guards
    /\ guards' = guards \cup {"known_identities"}
    /\ Goto("init_state")
    /\ UNCHANGED <<other_vars, loop_vars, args_dash, args_test, overflow_checks, loaded_identity,
                   known_identities, selected_strategy, persisted,
                   initial_identity_balance, running, issued, completed,
                   balance, ui_launched_with>>

\* Mutant: HashMap::insert, an entry already present is overwritten.
Insert(map, id, value) == [map EXCEPT ![id] = Some(value)]

\* HashMap::entry(id).or_insert_with(|| value)
OrInsert(map, id, value) ==
    IF IsSome(map[id]) THEN map ELSE [map EXCEPT ![id] = Some(value)]

\* main.rs:117-124: the body of the block; the guards drop at its end.
InitState ==
    /\ pc = "init_state"
    /\ known_identities' =
         IF IsSome(loaded_identity)
         THEN OrInsert(known_identities, Unwrap(loaded_identity).id,
                       Unwrap(loaded_identity))
         ELSE known_identities
    /\ selected_strategy' = None
    /\ guards' = {}
    /\ Goto("initial_identity_balance")
    /\ UNCHANGED <<other_vars, loop_vars, args_dash, args_test, overflow_checks, loaded_identity,
                   persisted, initial_identity_balance, running, issued,
                   completed, balance, ui_launched_with>>

\* IdentityBalance::from_credits wraps the credits it is given.
FromCredits(credits) == credits

\* main.rs:126-132
ReadInitialIdentityBalance ==
    /\ pc = "initial_identity_balance"
    /\ "loaded_identity" \notin guards
    /\ initial_identity_balance' =
         IF IsSome(loaded_identity)
         THEN Some(FromCredits(Unwrap(loaded_identity).balance))
         ELSE None
    /\ Goto("cli")
    /\ UNCHANGED <<other_vars, loop_vars, args_dash, args_test, overflow_checks, loaded_identity,
                   known_identities, selected_strategy, guards, persisted,
                   running, issued, completed, balance, ui_launched_with>>

Panic == Goto("panicked")

\* run_task(task) is called and main suspends on it.
Start(task) ==
    /\ running' = Some(task)
    /\ issued' = Append(issued, task)

\* The awaited task completes, with one of its outcomes on the state.
Finish(task) ==
    /\ running = Some(task)
    /\ completed' = Append(completed, task)
    /\ loaded_identity' \in RunTaskOutcomes(task, loaded_identity)

\* main.rs:135: no --dash, the precheck is skipped.
NoDash ==
    /\ pc = "cli"
    /\ args_dash = None
    /\ Goto("strategy")
    /\ UNCHANGED <<other_vars, loop_vars, args_dash, args_test, overflow_checks, loaded_identity,
                   known_identities, selected_strategy, guards, persisted,
                   initial_identity_balance, running, issued, completed,
                   balance, ui_launched_with>>

\* main.rs:138
RegisterAmount(start_dash) == MulU64(start_dash, DuffsPerDash)

\* main.rs:137-147: no identity loaded, register one.
StartRegisterIdentity ==
    /\ pc = "cli"
    /\ IsSome(args_dash)
    /\ loaded_identity = None
    /\ LET start_dash == Unwrap(args_dash) IN
         IF overflow_checks /\ MulOverflows(start_dash, DuffsPerDash)
         THEN Panic /\ UNCHANGED <<running, issued>>
         ELSE /\ Start(RegisterIdentity(RegisterAmount(start_dash)))
              /\ Goto("await_register_identity")
    /\ UNCHANGED <<other_vars, loop_vars, args_dash, args_test, overflow_checks, loaded_identity,
                   known_identities, selected_strategy, guards, persisted,
                   initial_identity_balance, completed, balance,
                   ui_launched_with>>

RegisterIdentityDone ==
    /\ pc = "await_register_identity"
    /\ \E task \in {Unwrap(running)} : IsRegisterIdentity(task) /\ Finish(task)
    /\ running' = None
    /\ Goto("strategy")
    /\ UNCHANGED <<other_vars, loop_vars, args_dash, args_test, overflow_checks, known_identities,
                   selected_strategy, guards, persisted,
                   initial_identity_balance, issued, balance, ui_launched_with>>

\* main.rs:149-150: an identity is loaded, refresh the wallet first.
StartWalletRefresh ==
    /\ pc = "cli"
    /\ IsSome(args_dash)
    /\ loaded_identity # None
    /\ Start(WalletRefresh)
    /\ Goto("await_wallet_refresh")
    /\ UNCHANGED <<other_vars, loop_vars, args_dash, args_test, overflow_checks, loaded_identity,
                   known_identities, selected_strategy, guards, persisted,
                   initial_identity_balance, completed, balance,
                   ui_launched_with>>

\* main.rs:150-153: the wallet refresh is over, the identity refresh starts.
WalletRefreshDone ==
    /\ pc = "await_wallet_refresh"
    /\ Finish(WalletRefresh)
    /\ Start(IdentityRefresh)
    /\ Goto("await_identity_refresh")
    /\ UNCHANGED <<other_vars, loop_vars, args_dash, args_test, overflow_checks, known_identities,
                   selected_strategy, guards, persisted,
                   initial_identity_balance, balance, ui_launched_with>>

IdentityRefreshDone ==
    /\ pc = "await_identity_refresh"
    /\ Finish(IdentityRefresh)
    /\ running' = None
    /\ Goto("read_balance")
    /\ UNCHANGED <<other_vars, loop_vars, args_dash, args_test, overflow_checks, known_identities,
                   selected_strategy, guards, persisted,
                   initial_identity_balance, issued, balance, ui_launched_with>>

\* Mutant: the balance from before the refreshes is used.
StaleBalanceRead(li) == Unwrap(persisted.loaded_identity).balance

\* main.rs:155-162: unwrap() panics when no identity is loaded.
BalanceRead(li) == Unwrap(li).balance

ReadBalance ==
    /\ pc = "read_balance"
    /\ "loaded_identity" \notin guards
    /\ IF IsSome(loaded_identity)
       THEN balance' = Some(BalanceRead(loaded_identity)) /\ Goto("compare")
       ELSE Panic /\ UNCHANGED balance
    /\ UNCHANGED <<other_vars, loop_vars, args_dash, args_test, overflow_checks, loaded_identity,
                   known_identities, selected_strategy, guards, persisted,
                   initial_identity_balance, running, issued, completed,
                   ui_launched_with>>

\* main.rs:169: the floor in credits, as the build computes it.
FloorCredits(start_dash) == MulU64(start_dash, CreditsPerDash)

\* Mutant: <= in place of <.
AtOrBelowFloor(b, start_dash) == ~BigLess(FloorCredits(start_dash), b)

\* main.rs:169
BelowFloor(b, start_dash) == BigLess(b, FloorCredits(start_dash))

\* main.rs:171
TopUpAmount(b, start_dash) ==
    BigDiv(SubU64(FloorCredits(start_dash), b), CreditsPerDuff)

\* main.rs:169-173: compare, and top up when the balance is below the floor.
CompareBalance ==
    /\ pc = "compare"
    /\ LET start_dash == Unwrap(args_dash)
           b == Unwrap(balance)
       IN IF overflow_checks /\ MulOverflows(start_dash, CreditsPerDash)
          THEN Panic /\ UNCHANGED <<running, issued>>
          ELSE IF BelowFloor(b, start_dash)
          THEN IF overflow_checks /\ SubOverflows(FloorCredits(start_dash), b)
               THEN Panic /\ UNCHANGED <<running, issued>>
               ELSE /\ Start(TopUpIdentity(TopUpAmount(b, start_dash)))
                    /\ Goto("await_top_up")
          ELSE Goto("strategy") /\ UNCHANGED <<running, issued>>
    /\ UNCHANGED <<other_vars, loop_vars, args_dash, args_test, overflow_checks, loaded_identity,
                   known_identities, selected_strategy, guards, persisted,
                   initial_identity_balance, completed, balance,
                   ui_launched_with>>

TopUpIdentityDone ==
    /\ pc = "await_top_up"
    /\ \E task \in {Unwrap(running)} : IsTopUpIdentity(task) /\ Finish(task)
    /\ running' = None
    /\ Goto("strategy")
    /\ UNCHANGED <<other_vars, loop_vars, args_dash, args_test, overflow_checks, known_identities,
                   selected_strategy, guards, persisted,
                   initial_identity_balance, issued, balance, ui_launched_with>>

\* Mutant: the strategy run is started without awaiting the funding task.
StartStrategyEarly ==
    /\ pc \in {"strategy", "await_register_identity", "await_top_up"}
    /\ IsSome(args_test)
    /\ Start(RunStrategy)
    /\ Goto("await_strategy")
    /\ UNCHANGED <<other_vars, loop_vars, args_dash, args_test, overflow_checks,
                   loaded_identity, known_identities, selected_strategy, guards,
                   persisted, initial_identity_balance, completed, balance,
                   ui_launched_with>>

\* main.rs:176-182
StartStrategy ==
    /\ pc = "strategy"
    /\ IsSome(args_test)
    /\ Start(RunStrategy)
    /\ Goto("await_strategy")
    /\ UNCHANGED <<other_vars, loop_vars, args_dash, args_test, overflow_checks, loaded_identity,
                   known_identities, selected_strategy, guards, persisted,
                   initial_identity_balance, completed, balance,
                   ui_launched_with>>

\* main.rs:36, 182-188: cli_action_taken, main returns without a UI.
StrategyDone ==
    /\ pc = "await_strategy"
    /\ Finish(RunStrategy)
    /\ running' = None
    /\ Goto("returned")
    /\ UNCHANGED <<other_vars, loop_vars, args_dash, args_test, overflow_checks, known_identities,
                   selected_strategy, guards, persisted,
                   initial_identity_balance, issued, balance, ui_launched_with>>

\* main.rs:176, 186-191: no --test, the UI is set up.
LaunchUi ==
    /\ pc = "strategy"
    /\ args_test = None
    /\ ui_launched_with' = Some(initial_identity_balance)
    /\ Goto("ui")
    /\ UNCHANGED <<other_vars, loop_vars, args_dash, args_test, overflow_checks, loaded_identity,
                   known_identities, selected_strategy, guards, persisted,
                   initial_identity_balance, running, issued, completed,
                   balance>>

StartupNext ==
    \/ LockLoadedIdentity
    \/ LockSelectedStrategy
    \/ LockKnownIdentities
    \/ InitState
    \/ ReadInitialIdentityBalance
    \/ NoDash
    \/ StartRegisterIdentity
    \/ RegisterIdentityDone
    \/ StartWalletRefresh
    \/ WalletRefreshDone
    \/ IdentityRefreshDone
    \/ ReadBalance
    \/ CompareBalance
    \/ TopUpIdentityDone
    \/ StartStrategy
    \/ StrategyDone
    \/ LaunchUi

SpecStartup == StartupInit /\ [][StartupNext]_vars

(***************************************************************************)
(* The main loop: main.rs:193-239                                          *)
(***************************************************************************)
\* Mutant: a future that has completed is polled again.
NeverTerminated(option_future) == IsSome(option_future)

\* A fused future that has not completed: the only kind select! polls.
\* OptionFuture::is_terminated is true for None, Fuse::is_terminated after
\* the future returned Ready.
Pending(option_future) ==
    IsSome(option_future) /\ ~Unwrap(option_future).terminated

\* Tasks a screen can ask for.
UiTasks == {WalletRefresh, IdentityRefresh}

FeedbackNone == <<"None">>
FeedbackRedraw == <<"Redraw">>
FeedbackQuit == <<"Quit">>
FeedbackExecuteTask(task) == <<"ExecuteTask", task>>

\* What ui.on_event can return, within the bounds: a new dispatch needs a
\* free dispatch number, a burst of Redraw feedbacks has at most MaxBurst.
UiFeedbacks ==
    {FeedbackNone, FeedbackQuit}
    \cup (IF Pending(ui_debounced_redraw) => redraws_in_burst < MaxBurst
          THEN {FeedbackRedraw}
          ELSE {})
    \cup (IF Len(dispatched) < MaxDispatch
          THEN {FeedbackExecuteTask(t) : t \in UiTasks}
          ELSE {})

\* What terminal_event_stream.next() can resolve to: None, Some(Err(_)),
\* Some(Ok(Resize)), Some(Ok(Key)) and the other terminal events.
ItemClosed == "None"
ItemError == "Err"
ItemResize == "Resize"
ItemKey == "Key"
ItemOther == "Other"

EventKey == <<"Key">>
EventRedrawDebounceTimeout == <<"RedrawDebounceTimeout">>

\* The BackendEvent run_task resolves to names the task it was given.
EventBackend(future) == <<"Backend", future.id, future.task>>

\* Mutant: the future is not fused, it stays pollable after it returned Ready.
NotFused(option_future) == option_future

\* Fuse: once the future has returned Ready it is terminated.
Fused(option_future) ==
    Some([Unwrap(option_future) EXCEPT !.terminated = TRUE])

\* Mutant: a task that is still in flight is kept, the new one is dropped.
KeepPendingBackendTask(previous, id, task) ==
    IF Pending(previous) THEN previous
    ELSE Some([id |-> id, task |-> task, terminated |-> FALSE])

\* main.rs:226: the new future takes the place of the previous one.
ReplaceBackendTask(previous, id, task) ==
    Some([id |-> id, task |-> task, terminated |-> FALSE])

\* Mutant: the previous future is detached and keeps running.
FuturesAfterDetach(futures, previous, id) == futures \cup {id}

\* main.rs:226: the assignment drops the future that was held.
FuturesAfterReplace(futures, previous, id) ==
    (futures \ (IF IsSome(previous) THEN {Unwrap(previous).id} ELSE {}))
    \cup {id}

\* Mutant: a pending timer is kept, the Redraw feedback does not re-arm it.
KeepPendingDebounce(previous, time) ==
    IF Pending(previous) THEN previous
    ELSE Some([armed_at |-> time, terminated |-> FALSE])

\* main.rs:230-235: a new sleep takes the place of the pending one.
ArmDebounce(previous, time) ==
    Some([armed_at |-> time, terminated |-> FALSE])

\* tokio::time::sleep(10 ms) created at armed_at is ready from armed_at + 10.
TimerReady(timer, time) == time >= timer.armed_at + DebounceMs

\* main.rs:223-238: the match on ui_feedback, after a select! that left the
\* backend task as `task_after` and the pending futures as `futures_after`.
ApplyFeedback(fb, task_after, futures_after, render) ==
    /\ ui_feedback' = Some(fb)
    /\ IF fb = FeedbackQuit
       THEN active' = FALSE /\ Goto("returned")
       ELSE UNCHANGED <<active, pc>>
    /\ IF fb[1] = "ExecuteTask"
       THEN LET id == Len(dispatched) + 1 IN
            /\ backend_task' = ReplaceBackendTask(task_after, id, fb[2])
            /\ pending_futures' = FuturesAfterReplace(futures_after, task_after, id)
            /\ dispatched' = Append(dispatched, fb[2])
            /\ rendered' = "execute_task"
       ELSE /\ backend_task' = task_after
            /\ pending_futures' = futures_after
            /\ rendered' = render
            /\ UNCHANGED dispatched
    /\ IF fb = FeedbackRedraw
       THEN /\ ui_debounced_redraw' = ArmDebounce(ui_debounced_redraw, now)
            /\ last_redraw_at' = now
            /\ bursts' = IF Pending(ui_debounced_redraw) THEN bursts ELSE bursts + 1
            /\ redraws_in_burst' =
                 IF Pending(ui_debounced_redraw) THEN redraws_in_burst + 1 ELSE 1
       ELSE UNCHANGED <<ui_debounced_redraw, last_redraw_at, bursts,
                        redraws_in_burst>>

\* Mutant: the loop does not look at `active` again after a Quit feedback.
LoopIgnoresActive == pc \in {"ui", "returned"}

InLoop == pc = "ui" /\ active

\* Time passes.
Tick ==
    /\ InLoop
    /\ now < MaxTime
    /\ now' = now + 1
    /\ UNCHANGED <<other_vars, startup_vars, active, backend_task, ui_debounced_redraw,
                   terminal_event, event, ui_feedback, forwarded, rendered, dispatched,
                   delivered, pending_futures, last_redraw_at, bursts,
                   redraws_in_burst, timer_renders>>

\* main.rs:202: the stream ended.
TerminalClosed ==
    /\ InLoop
    /\ terminal_event' = Some(ItemClosed)
    /\ Panic
    /\ UNCHANGED <<other_vars, args_dash, args_test, overflow_checks,
                   loaded_identity,
                   known_identities, selected_strategy, guards, persisted,
                   initial_identity_balance, running, issued, completed,
                   balance, ui_launched_with, active, backend_task, ui_debounced_redraw, now,
                   event, ui_feedback, forwarded, rendered, dispatched,
                   delivered, pending_futures, last_redraw_at, bursts,
                   redraws_in_burst, timer_renders>>

\* main.rs:203: the stream yielded an error.
TerminalError ==
    /\ InLoop
    /\ terminal_event' = Some(ItemError)
    /\ Panic
    /\ UNCHANGED <<other_vars, args_dash, args_test, overflow_checks,
                   loaded_identity,
                   known_identities, selected_strategy, guards, persisted,
                   initial_identity_balance, running, issued, completed,
                   balance, ui_launched_with, active, backend_task, ui_debounced_redraw, now,
                   event, ui_feedback, forwarded, rendered, dispatched,
                   delivered, pending_futures, last_redraw_at, bursts,
                   redraws_in_burst, timer_renders>>

\* Mutant: a resize also throws the pending debounce timer away.
TerminalResizeCancelsDebounce ==
    /\ InLoop
    /\ terminal_event' = Some(ItemResize)
    /\ rendered' = "resize"
    /\ event' = None
    /\ ui_feedback' = None
    /\ forwarded' = None
    /\ ui_debounced_redraw' = None
    /\ UNCHANGED <<other_vars, startup_vars, active, backend_task, now,
                   dispatched, delivered, pending_futures, last_redraw_at,
                   bursts, redraws_in_burst, timer_renders>>

\* main.rs:204: redraw and continue; the rest of the iteration is skipped.
TerminalResize ==
    /\ InLoop
    /\ terminal_event' = Some(ItemResize)
    /\ rendered' = "resize"
    /\ event' = None
    /\ ui_feedback' = None
    /\ forwarded' = None
    /\ UNCHANGED <<other_vars, startup_vars, active, backend_task, ui_debounced_redraw,
                   now, dispatched, delivered, pending_futures,
                   last_redraw_at, bursts, redraws_in_burst, timer_renders>>

\* main.rs:205, 213-215, 223-238: a key press goes to the UI.
TerminalKey(fb) ==
    /\ InLoop
    /\ terminal_event' = Some(ItemKey)
    /\ event' = Some(EventKey)
    /\ forwarded' = Some(EventKey)
    /\ ApplyFeedback(fb, backend_task, pending_futures, "no")
    /\ UNCHANGED <<other_vars, args_dash, args_test, overflow_checks,
                   loaded_identity,
                   known_identities, selected_strategy, guards, persisted,
                   initial_identity_balance, running, issued, completed,
                   balance, ui_launched_with, now, delivered, timer_renders>>

\* main.rs:206, 220, 237: any other terminal event yields no event.
TerminalOther ==
    /\ InLoop
    /\ terminal_event' = Some(ItemOther)
    /\ event' = None
    /\ forwarded' = None
    /\ ApplyFeedback(FeedbackNone, backend_task, pending_futures, "no")
    /\ UNCHANGED <<other_vars, args_dash, args_test, overflow_checks,
                   loaded_identity,
                   known_identities, selected_strategy, guards, persisted,
                   initial_identity_balance, running, issued, completed,
                   balance, ui_launched_with, now, delivered, timer_renders>>

\* main.rs:208, 213-215, 223-238: the in-flight task finished, its event
\* goes to the UI.
BackendTaskFinished(fb) ==
    /\ InLoop
    /\ Pending(backend_task)
    /\ LET future == Unwrap(backend_task) IN
         /\ terminal_event' = None
         /\ event' = Some(EventBackend(future))
         /\ forwarded' = Some(EventBackend(future))
         /\ delivered' = [delivered EXCEPT ![future.id] = @ + 1]
         /\ ApplyFeedback(fb, Fused(backend_task),
                          pending_futures \ {future.id}, "no")
    /\ UNCHANGED <<other_vars, args_dash, args_test, overflow_checks,
                   loaded_identity,
                   known_identities, selected_strategy, guards, persisted,
                   initial_identity_balance, running, issued, completed,
                   balance, ui_launched_with, now, timer_renders>>

\* Mutant: the timer event is handed to ui.on_event like the other events.
DebounceTimeoutForwarded ==
    /\ InLoop
    /\ Pending(ui_debounced_redraw)
    /\ TimerReady(Unwrap(ui_debounced_redraw), now)
    /\ terminal_event' = None
    /\ event' = Some(EventRedrawDebounceTimeout)
    /\ forwarded' = Some(EventRedrawDebounceTimeout)
    /\ ui_feedback' = Some(FeedbackNone)
    /\ rendered' = "debounce"
    /\ timer_renders' = timer_renders + 1
    /\ ui_debounced_redraw' = Fused(ui_debounced_redraw)
    /\ UNCHANGED <<other_vars, startup_vars, active, backend_task, now,
                   dispatched, delivered, pending_futures, last_redraw_at,
                   bursts, redraws_in_burst>>

\* main.rs:209, 216-219: the debounce timer fired, the UI is redrawn.
DebounceTimeout ==
    /\ InLoop
    /\ Pending(ui_debounced_redraw)
    /\ TimerReady(Unwrap(ui_debounced_redraw), now)
    /\ terminal_event' = None
    /\ event' = Some(EventRedrawDebounceTimeout)
    /\ forwarded' = None
    /\ ui_feedback' = Some(FeedbackNone)
    /\ rendered' = "debounce"
    /\ timer_renders' = timer_renders + 1
    /\ ui_debounced_redraw' = Fused(ui_debounced_redraw)
    /\ UNCHANGED <<other_vars, startup_vars, active, backend_task, now, dispatched,
                   delivered, pending_futures, last_redraw_at, bursts,
                   redraws_in_burst>>

\* main has launched the UI, with no arguments given and no identity loaded.
UiLaunched ==
    /\ args_dash = None
    /\ args_test = None
    /\ overflow_checks = FALSE
    /\ loaded_identity = None
    /\ known_identities = [i \in Ids |-> None]
    /\ selected_strategy = None
    /\ guards = {}
    /\ persisted = [loaded_identity |-> None,
                    known_identities |-> [i \in Ids |-> None],
                    selected_strategy |-> None]
    /\ initial_identity_balance = None
    /\ pc = "ui"
    /\ running = None
    /\ issued = <<>>
    /\ completed = <<>>
    /\ balance = None
    /\ ui_launched_with = Some(None)

Init ==
    /\ LoopLocalsInit
    /\ UiLaunched
    /\ FetchIdle
    /\ ScreenIdle
    /\ StrategyIdle

Next ==
    \/ Tick
    \/ TerminalClosed
    \/ TerminalError
    \/ TerminalResize
    \/ \E fb \in UiFeedbacks : TerminalKey(fb)
    \/ TerminalOther
    \/ \E fb \in UiFeedbacks : BackendTaskFinished(fb)
    \/ DebounceTimeout

Spec == Init /\ [][Next]_vars

\* The loop with the scheduling select! gives a task in flight: a future
\* that stays pending is polled on every iteration and resolves (requests
\* carry a timeout, main.rs:87-92), so its completion is eventually taken.
SpecFair == Spec /\ WF_vars(\E fb \in UiFeedbacks : BackendTaskFinished(fb))

(***************************************************************************)
(* Claims about the main loop                                              *)
(***************************************************************************)
Dispatches == 1..MaxDispatch
LastDispatch == Len(dispatched)
Superseded(i) == i < LastDispatch

\* C1 (supersession): at most one backend future exists unfinished, and it
\* is the one backend_task holds; as long as no completion of the last
\* ExecuteTask feedback was observed, backend_task is the pending future
\* created for that feedback's task.
C1_Supersession ==
    /\ Cardinality(pending_futures) <= 1
    /\ pending_futures =
         IF Pending(backend_task) THEN {Unwrap(backend_task).id} ELSE {}
    /\ (LastDispatch > 0 /\ delivered[LastDispatch] = 0) =>
         /\ backend_task = Some([id |-> LastDispatch,
                                 task |-> dispatched[LastDispatch],
                                 terminated |-> FALSE])
         /\ pending_futures = {LastDispatch}

\* Two ExecuteTask feedbacks for different tasks, no completion observed.
C1_Witness ==
    /\ LastDispatch = 2
    /\ dispatched[1] # dispatched[2]
    /\ \A i \in Dispatches : delivered[i] = 0
    /\ Pending(backend_task)

Delivery(i) == delivered'[i] # delivered[i]

\* C2 as stated: every dispatch that is neither superseded nor cut off by
\* Quit gets its Event::Backend delivered.
C2_Original ==
    \A i \in Dispatches :
        [](LastDispatch >= i => <>(delivered[i] = 1 \/ Superseded(i) \/ ~active))

\* C2 (completion correspondence), amended: every dispatch that is neither
\* superseded, nor cut off by Quit, nor cut off by the panic on an
\* input-stream failure gets its Event::Backend delivered; no dispatch gets
\* it twice; and the event delivered for a dispatch names that dispatch's
\* task.
C2_CompletionCorrespondence ==
    /\ \A i \in Dispatches :
         [](LastDispatch >= i =>
              <>(delivered[i] = 1 \/ Superseded(i) \/ ~active \/ pc = "panicked"))
    /\ [](\A i \in Dispatches : delivered[i] <= 1)
    /\ [][\A i \in Dispatches :
            Delivery(i) =>
              /\ delivered'[i] = delivered[i] + 1
              /\ forwarded' = Some(<<"Backend", i, dispatched[i]>>)]_vars

\* A dispatch was delivered once and the loop went on afterwards.
C2_Witness ==
    /\ LastDispatch = 1
    /\ delivered[1] = 1
    /\ InLoop
    /\ event = Some(EventKey)
    /\ ~Pending(backend_task)

\* C3 (superseded completions are discarded): an Event::Backend is only ever
\* delivered for the most recent dispatch, whose future was in flight; the
\* delivery count of a superseded dispatch never changes.
C3_SupersededDiscarded ==
    [][\A i \in Dispatches :
         /\ Delivery(i) => (i = LastDispatch /\ i \in pending_futures)
         /\ Superseded(i) => ~Delivery(i)]_vars

\* The first dispatch was superseded before it completed; the second
\* completed and was delivered.
C3_Witness ==
    /\ LastDispatch = 2
    /\ delivered[1] = 0
    /\ delivered[2] = 1
    /\ forwarded = Some(<<"Backend", 2, dispatched[2]>>)

\* C4 (redraw coalescing): every burst of Redraw feedbacks whose timer has
\* fired produced exactly one timer render and the burst still waiting for
\* its timer none; a pending timer is the one armed by the last Redraw
\* feedback; and the timer render comes no earlier than 10 ms after the
\* last Redraw feedback.
C4_RedrawCoalescing ==
    /\ timer_renders = IF Pending(ui_debounced_redraw) THEN bursts - 1 ELSE bursts
    /\ Pending(ui_debounced_redraw) =>
         Unwrap(ui_debounced_redraw).armed_at = last_redraw_at
    /\ rendered = "debounce" => now >= last_redraw_at + DebounceMs

\* A burst of two Redraw feedbacks, the second after time had passed, was
\* rendered once.
C4_Witness ==
    /\ rendered = "debounce"
    /\ redraws_in_burst = 2
    /\ last_redraw_at > 0
    /\ bursts = 1
    /\ timer_renders = 1

(***************************************************************************)
(* Claims about the startup sequence                                       *)
(***************************************************************************)
\* The tasks of the funding precheck, in the order they were started.
IsPrecheckTask(t) == t # RunStrategy
PrecheckTasks == SelectSeq(issued, IsPrecheckTask)
TopUps == SelectSeq(issued, IsTopUpIdentity)

\* The precheck is over: main went on to the strategy, or the process died.
PrecheckOver ==
    pc \in {"strategy", "await_strategy", "returned", "ui", "panicked"}

\* d * 10^8 duffs and d * 10^11 credits as numbers, not cut to 64 bits.
ExactDuffs(d) == BigMul(d, DuffsPerDash)
ExactFloor(d) == BigMul(d, CreditsPerDash)

\* C5 (precheck without an identity): with --dash d and no identity loaded
\* at startup, the precheck issues RegisterIdentity(d * 10^8) and nothing
\* else.
C5_RegisterIdentityOnly ==
    (IsSome(args_dash) /\ persisted.loaded_identity = None /\ PrecheckOver) =>
        PrecheckTasks = <<RegisterIdentity(ExactDuffs(Unwrap(args_dash)))>>

\* C6 (precheck idempotence): once the balance read after the refreshes is
\* at or above the floor d * 10^11, no TopUpIdentity task is ever issued.
C6_NoTopUpAtFloor ==
    (IsSome(balance) /\ ~BigLess(Unwrap(balance), ExactFloor(Unwrap(args_dash)))) =>
        TopUps = <<>>

\* --dash 5 and a refreshed balance of exactly 5 * 10^11: the precheck
\* ended after the two refreshes.
C6_Witness ==
    /\ pc = "strategy"
    /\ args_dash = Some(Big(5))
    /\ balance = Some(Floor5)
    /\ issued = <<WalletRefresh, IdentityRefresh>>

\* C7 (positive top-up): every TopUpIdentity task the precheck issues
\* carries an amount greater than zero.
C7_TopUpAmountPositive ==
    \A k \in DOMAIN issued :
        IsTopUpIdentity(issued[k]) => issued[k][3] # Zero

\* The balance has been compared with the floor.
Compared == pc = "await_top_up" \/ (IsSome(balance) /\ PrecheckOver)

\* C8 (top-up of the shortfall): when the balance read after the refreshes
\* is below the floor f = d * 10^11, the precheck issues exactly one
\* TopUpIdentity(a), and a * 1000 = f - b.
C8_TopUpExactShortfall ==
    (Compared /\ BigLess(Unwrap(balance), ExactFloor(Unwrap(args_dash)))) =>
        /\ Len(TopUps) = 1
        /\ BigMul(TopUps[1][3], Big(CreditsPerDuff))
             = BigSub(ExactFloor(Unwrap(args_dash)), Unwrap(balance))

\* C9 (refresh before compare): the identity refresh starts only after the
\* wallet refresh has completed; the balance is read only after both have
\* completed, in that order; the balance compared with the floor is the
\* loaded identity's balance as the refreshes left it, and a top-up is
\* started exactly when that balance is below the floor.
C9_RefreshBeforeCompare ==
    /\ (Len(issued) >= 2 /\ issued[2] = IdentityRefresh) =>
         (Len(completed) >= 1 /\ completed[1] = WalletRefresh)
    /\ IsSome(balance) =>
         /\ SubSeq(issued, 1, 2) = <<WalletRefresh, IdentityRefresh>>
         /\ Len(completed) >= 2
         /\ SubSeq(completed, 1, 2) = <<WalletRefresh, IdentityRefresh>>
    /\ pc \in {"compare", "await_top_up"} =>
         balance = Some(Unwrap(loaded_identity).balance)
    /\ pc = "await_top_up" =>
         BelowFloor(Unwrap(loaded_identity).balance, Unwrap(args_dash))
    /\ (IsSome(balance) /\ pc \in {"strategy", "await_strategy", "returned", "ui"}
        /\ TopUps = <<>>) =>
         ~BelowFloor(Unwrap(balance), Unwrap(args_dash))

\* The persisted balance met the floor of --dash 5, the refreshed one does
\* not, and the top-up was started.
C9_Witness ==
    /\ pc = "await_top_up"
    /\ args_dash = Some(Big(5))
    /\ Unwrap(persisted.loaded_identity).balance = Floor5
    /\ balance = Some(BigMul(Big(2), CreditsPerDash))

AfterInitState == pc \in {"initial_identity_balance", "cli"}

\* C10 (startup initialization): after the initialization step
\* selected_strategy is empty; with a loaded identity, known_identities has
\* an entry under its id, the one that was there before or else the loaded
\* identity, and the other entries are as before; with no loaded identity
\* known_identities is as before; loaded_identity is as before.
C10_StartupInitialization ==
    AfterInitState =>
        /\ selected_strategy = None
        /\ loaded_identity = persisted.loaded_identity
        /\ IF IsSome(persisted.loaded_identity)
           THEN LET li == Unwrap(persisted.loaded_identity) IN
                /\ IsSome(known_identities[li.id])
                /\ known_identities[li.id] =
                     IF IsSome(persisted.known_identities[li.id])
                     THEN persisted.known_identities[li.id]
                     ELSE Some(li)
                /\ \A j \in Ids \ {li.id} :
                     known_identities[j] = persisted.known_identities[j]
           ELSE known_identities = persisted.known_identities

\* A strategy was persisted, and the loaded identity was already known with
\* another balance than the loaded one.
C10_Witness ==
    /\ pc = "cli"
    /\ IsSome(persisted.selected_strategy)
    /\ IsSome(persisted.loaded_identity)
    /\ LET li == Unwrap(persisted.loaded_identity) IN
         /\ IsSome(persisted.known_identities[li.id])
         /\ persisted.known_identities[li.id] # Some(li)

(***************************************************************************)
(* Claims about the lock discipline                                        *)
(***************************************************************************)
\* main is suspended: on a lock().await or on the task it runs.
LockAwaits ==
    {"lock_loaded_identity", "lock_selected_strategy", "lock_known_identities"}
TaskAwaits ==
    {"await_register_identity", "await_wallet_refresh",
     "await_identity_refresh", "await_top_up", "await_strategy"}
Suspended == pc \in LockAwaits \cup TaskAwaits

\* C11 (lock discipline): whenever main is suspended on an asynchronous
\* operation, the wait for another field's lock included, it holds no guard
\* of a state field.
C11_NoGuardAcrossAwait == Suspended => guards = {}

(***************************************************************************)
(* Claims about the events and the end of the main loop                    *)
(***************************************************************************)
\* C12 (what reaches the screen): an event given to ui.on_event is a key
\* press or a backend completion; a resize renders at once, forwards
\* nothing and yields no feedback; a timer completion becomes
\* RedrawDebounceTimeout, renders, forwards nothing and yields feedback None.
C12_OnlyKeyAndBackendForwarded ==
    /\ IsSome(forwarded) => Unwrap(forwarded)[1] \in {"Key", "Backend"}
    /\ terminal_event = Some(ItemResize) =>
         /\ rendered = "resize"
         /\ forwarded = None
         /\ ui_feedback = None
    /\ event = Some(EventRedrawDebounceTimeout) =>
         /\ rendered = "debounce"
         /\ forwarded = None
         /\ ui_feedback = Some(FeedbackNone)

\* The timer fired and rendered, then the window was resized.
C12_Witness ==
    /\ terminal_event = Some(ItemResize)
    /\ rendered = "resize"
    /\ timer_renders = 1

QuitStep ==
    /\ pc' = "returned"
    /\ ~active'
    /\ ui_feedback' = Some(FeedbackQuit)

StreamFailureStep ==
    /\ pc' = "panicked"
    /\ terminal_event' \in {Some(ItemClosed), Some(ItemError)}

\* C13 (termination): the loop is left only by a Quit feedback or by the
\* panic on a closed or failed input stream; once it is left nothing
\* happens any more: no event is forwarded, no task started, no timer
\* armed or fired, whatever was pending.
C13_Termination ==
    [][/\ (pc = "ui" /\ pc' # "ui") => (QuitStep \/ StreamFailureStep)
       /\ pc # "ui" => UNCHANGED vars]_vars

\* Quit arrived while a backend task and a debounce timer were pending.
C13_Witness ==
    /\ pc = "returned"
    /\ ~active
    /\ ui_feedback = Some(FeedbackQuit)
    /\ Pending(backend_task)
    /\ Pending(ui_debounced_redraw)

\* A step of the loop other than the passing of time: one iteration.
Iteration == now' = now
StreamItems == {ItemClosed, ItemError, ItemResize, ItemKey, ItemOther}
Unfinished(option_future) ==
    option_future # None /\ ~option_future[1].terminated

\* C14 as stated: every completed wait on an item the stream yields, on the
\* backend task or on the timer produces a high-level event.
C14_Original ==
    (terminal_event \in {Some(ItemResize), Some(ItemKey), Some(ItemOther)}) =>
        IsSome(event)

\* C14 (one event per iteration), amended: every iteration is the
\* completion of one of the three sources and produces at most one event:
\* exactly one for a key press, a backend completion and a timer
\* completion, none for a resize and for any other terminal event; the
\* backend branch completes only for a task in flight and the timer branch
\* only for an armed timer that has not fired, at or after its deadline.
C14_OneEventPerIteration ==
    /\ [](/\ terminal_event = Some(ItemKey) => event = Some(EventKey)
          /\ terminal_event \in {Some(ItemResize), Some(ItemOther)} => event = None
          /\ (terminal_event = None /\ IsSome(event)) =>
                Unwrap(event)[1] \in {"Backend", "RedrawDebounceTimeout"})
    /\ [][Iteration =>
            \/ terminal_event' \in {Some(i) : i \in StreamItems}
            \/ /\ terminal_event' = None
               /\ Unfinished(backend_task)
               /\ event' = Some(EventBackend(Unwrap(backend_task)))
            \/ /\ terminal_event' = None
               /\ Unfinished(ui_debounced_redraw)
               /\ now >= Unwrap(ui_debounced_redraw).armed_at + DebounceMs
               /\ event' = Some(EventRedrawDebounceTimeout)]_vars

\* The task and the timer have both completed, and the loop waits: the
\* next iteration came from the stream and produced no event.
C14_Witness ==
    /\ IsSome(backend_task) /\ Unwrap(backend_task).terminated
    /\ IsSome(ui_debounced_redraw) /\ Unwrap(ui_debounced_redraw).terminated
    /\ terminal_event = Some(ItemOther)
    /\ event = None
    /\ pc = "ui"

IsFundingSequence(tasks) ==
    \/ tasks = <<>>
    \/ Len(tasks) = 1 /\ IsRegisterIdentity(tasks[1])
    \/ tasks = <<WalletRefresh, IdentityRefresh>>
    \/ /\ Len(tasks) = 3
       /\ tasks[1] = WalletRefresh
       /\ tasks[2] = IdentityRefresh
       /\ IsTopUpIdentity(tasks[3])

StrategyIssued == \E i \in 1..Len(issued) : issued[i] = RunStrategy

\* C16 (funding precedes running): when the strategy run is issued, every
\* funding task issued before it has completed, it is the last task issued,
\* at most one task is in flight, and the funding tasks are one of: none, a
\* registration, wallet refresh then identity refresh, or these followed by
\* a top-up.
C16_FundingPrecedesRunning ==
    /\ Len(issued) - Len(completed) \in {0, 1}
    /\ \A i \in 1..Len(completed) : completed[i] = issued[i]
    /\ StrategyIssued =>
         /\ issued[Len(issued)] = RunStrategy
         /\ Len(completed) >= Len(issued) - 1
         /\ PrecheckTasks = SubSeq(issued, 1, Len(issued) - 1)
         /\ IsFundingSequence(PrecheckTasks)

\* The strategy run was issued after a refresh and a top-up that completed.
C16_Witness ==
    /\ pc = "await_strategy"
    /\ Len(issued) = 4
    /\ IsTopUpIdentity(issued[3])
    /\ Len(completed) = 3

\* C20 (frame of the pending operations): the backend task handle changes
\* only when an ExecuteTask feedback replaces it or when it completes
\* itself; the debounce timer changes only when a Redraw feedback re-arms it
\* or when it fires itself; a dispatched future is dropped only by its own
\* delivery or by an ExecuteTask feedback. A resize, an unhandled terminal
\* event, a key press answered with None and the completion of the other
\* source therefore leave a pending operation as it was.
C20_PendingFrame ==
    [][/\ backend_task' # backend_task =>
            /\ Iteration
            /\ \/ /\ IsSome(ui_feedback')
                  /\ Unwrap(ui_feedback')[1] = "ExecuteTask"
                  /\ Len(dispatched') = Len(dispatched) + 1
               \/ /\ Unfinished(backend_task)
                  /\ terminal_event' = None
                  /\ event' = Some(EventBackend(Unwrap(backend_task)))
                  /\ backend_task' = Fused(backend_task)
       /\ ui_debounced_redraw' # ui_debounced_redraw =>
            /\ Iteration
            /\ \/ /\ ui_feedback' = Some(FeedbackRedraw)
                  /\ Unfinished(ui_debounced_redraw')
                  /\ Unwrap(ui_debounced_redraw').armed_at = now
               \/ /\ Unfinished(ui_debounced_redraw)
                  /\ terminal_event' = None
                  /\ event' = Some(EventRedrawDebounceTimeout)
                  /\ ui_debounced_redraw' = Fused(ui_debounced_redraw)
       /\ \A i \in pending_futures \ pending_futures' :
            \/ Delivery(i)
            \/ /\ IsSome(ui_feedback')
               /\ Unwrap(ui_feedback')[1] = "ExecuteTask"]_vars

\* A resize arrived while a backend task and a debounce timer were pending,
\* and both are still pending.
C20_Witness ==
    /\ terminal_event = Some(ItemResize)
    /\ Pending(backend_task)
    /\ Pending(ui_debounced_redraw)
    /\ pending_futures # {}

(***************************************************************************)
(* app/identity.rs: fetch_identity_bytes_by_b58_id                          *)
(***************************************************************************)
\* Bounds: calls of the function, input events offered to the calling thread.
MaxCalls == 2
MaxInputs == 2

Ok(value) == <<"Ok", value>>
Err(error) == <<"Err", error>>

\* identity.rs:23: the identifier strings: a well-formed one, one with a
\* character outside the base58 alphabet, one that decodes to the wrong length.
B58Ids ==
    {[alphabet_ok |-> a, length_ok |-> l] : a, l \in BOOLEAN}

\* identity.rs:26: Identifier::from_string(.., Encoding::Base58)
FromString(id) ==
    IF id.alphabet_ok /\ id.length_ok THEN Ok("identifier")
    ELSE IF ~id.alphabet_ok THEN Err("Base58DecodeError")
    ELSE Err("IdentifierLengthError")

\* The serialized identities the service can answer with.
IdentityBytes == {<<7>>, <<7, 9>>}

\* identity.rs:29: what execute can resolve to: a response carrying an
\* identity, one carrying a proof, one with no result, a transport error.
ResponseIdentity(bytes) == <<"Identity", bytes>>
ResponseProof == <<"Proof", <<>>>>
ResponseEmpty == <<"NoResult", <<>>>>
TransportError == <<"TransportError", <<>>>>
Responses ==
    {ResponseIdentity(b) : b \in IdentityBytes}
    \cup {ResponseProof, ResponseEmpty, TransportError}

\* Mutant: every Ok response is turned into an Ok value.
MatchAnyOk(response) ==
    IF response = TransportError THEN Err("DapiError") ELSE Ok(response[2])

\* identity.rs:30-38
MatchResponse(response) ==
    IF response[1] = "Identity" THEN Ok(response[2]) ELSE Err("DapiError")

FetchUnchanged == UNCHANGED <<startup_vars, loop_vars, screen_vars, strategy_vars>>

\* identity.rs:22-25: the function is called on the calling thread.
CallFetch(id) ==
    /\ fetch_pc \in {"idle", "returned"}
    /\ fetch_calls < MaxCalls
    /\ fetch_calls' = fetch_calls + 1
    /\ b58_id' = Some(id)
    /\ fetch_requests' = 0
    /\ fetch_response' = None
    /\ fetch_result' = None
    /\ fetch_pc' = "from_string"
    /\ UNCHANGED <<thread_blocked, inputs_taken>>
    /\ FetchUnchanged

\* identity.rs:26: `?` returns the parse error to the caller.
ParseIdentifier ==
    /\ fetch_pc = "from_string"
    /\ LET parsed == FromString(Unwrap(b58_id))
       IN IF parsed[1] = "Err"
          THEN /\ fetch_result' = Some(parsed)
               /\ fetch_pc' = "returned"
          ELSE /\ fetch_result' = fetch_result
               /\ fetch_pc' = "runtime_new"
    /\ UNCHANGED <<b58_id, fetch_requests, fetch_response, fetch_calls,
                   thread_blocked, inputs_taken>>
    /\ FetchUnchanged

\* identity.rs:28: Runtime::new().unwrap()
RuntimeNew ==
    /\ fetch_pc = "runtime_new"
    /\ fetch_pc' = "block_on"
    /\ UNCHANGED <<b58_id, fetch_requests, fetch_response, fetch_result,
                   fetch_calls, thread_blocked, inputs_taken>>
    /\ FetchUnchanged

\* identity.rs:28: the runtime cannot be built, unwrap panics.
RuntimeNewFails ==
    /\ fetch_pc = "runtime_new"
    /\ fetch_pc' = "panicked"
    /\ UNCHANGED <<b58_id, fetch_requests, fetch_response, fetch_result,
                   fetch_calls, thread_blocked, inputs_taken>>
    /\ FetchUnchanged

\* identity.rs:29: block_on sends the request and parks the calling thread
\* until execute resolves.
BlockOnExecute ==
    /\ fetch_pc = "block_on"
    /\ fetch_requests' = fetch_requests + 1
    /\ thread_blocked' = TRUE
    /\ fetch_pc' = "await_response"
    /\ UNCHANGED <<b58_id, fetch_response, fetch_result, fetch_calls,
                   inputs_taken>>
    /\ FetchUnchanged

\* identity.rs:29: execute resolves, block_on returns.
ExecuteResolves(response) ==
    /\ fetch_pc = "await_response"
    /\ fetch_response' = Some(response)
    /\ thread_blocked' = FALSE
    /\ fetch_pc' = "match"
    /\ UNCHANGED <<b58_id, fetch_requests, fetch_result, fetch_calls,
                   inputs_taken>>
    /\ FetchUnchanged

\* identity.rs:30-38
ReturnResult ==
    /\ fetch_pc = "match"
    /\ fetch_result' = Some(MatchResponse(Unwrap(fetch_response)))
    /\ fetch_pc' = "returned"
    /\ UNCHANGED <<b58_id, fetch_requests, fetch_response, fetch_calls,
                   thread_blocked, inputs_taken>>
    /\ FetchUnchanged

\* The calling thread takes an input event: it can when it is not inside
\* the function, or when it waits for the response without being parked.
TakeInput ==
    /\ \/ fetch_pc \in {"idle", "returned"}
       \/ fetch_pc = "await_response" /\ ~thread_blocked
    /\ inputs_taken < MaxInputs
    /\ inputs_taken' = inputs_taken + 1
    /\ UNCHANGED <<fetch_pc, b58_id, fetch_requests, fetch_response,
                   fetch_result, fetch_calls, thread_blocked>>
    /\ FetchUnchanged

FetchInit ==
    /\ LoopLocalsInit
    /\ UiLaunched
    /\ FetchIdle
    /\ ScreenIdle
    /\ StrategyIdle

FetchNext ==
    \/ \E id \in B58Ids : CallFetch(id)
    \/ ParseIdentifier
    \/ RuntimeNew
    \/ RuntimeNewFails
    \/ BlockOnExecute
    \/ \E response \in Responses : ExecuteResolves(response)
    \/ ReturnResult
    \/ TakeInput

SpecFetch == FetchInit /\ [][FetchNext]_vars

\* C15 (no synchronous blocking): while the remote request of a backend
\* operation is in progress the calling thread is not blocked, and an
\* arriving input event can be taken before the operation completes.
C15_NoSynchronousBlocking ==
    (fetch_pc = "await_response" /\ inputs_taken < MaxInputs) =>
        (~thread_blocked /\ ENABLED TakeInput)

\* C19 (no retry outside the strategy runner): a call of
\* fetch_identity_bytes_by_b58_id calls execute at most once; for a
\* malformed identifier it returns the parse error without having called
\* it; for a transport error or a response without an identity it returns
\* Err(DapiError) after that one request; it returns Ok only with the bytes
\* of the identity the response carried.
C19_NoRetryInFetch ==
    /\ fetch_requests <= 1
    /\ fetch_pc = "returned" => IsSome(fetch_result)
    /\ IsSome(fetch_result) =>
         LET id == Unwrap(b58_id)
             result == Unwrap(fetch_result)
         IN /\ ~(id.alphabet_ok /\ id.length_ok) =>
                 /\ fetch_requests = 0
                 /\ fetch_response = None
                 /\ result[1] = "Err"
            /\ (id.alphabet_ok /\ id.length_ok) =>
                 /\ fetch_requests = 1
                 /\ IsSome(fetch_response)
                 /\ Unwrap(fetch_response)[1] = "Identity" =>
                        result = Ok(Unwrap(fetch_response)[2])
                 /\ Unwrap(fetch_response)[1] # "Identity" =>
                        result = Err("DapiError")

\* The second call of the function met a transport error and returned it.
C19_Witness ==
    /\ fetch_calls = 2
    /\ fetch_pc = "returned"
    /\ fetch_requests = 1
    /\ fetch_response = Some(TransportError)
    /\ fetch_result = Some(Err("DapiError"))

(***************************************************************************)
(* ui/views/contracts: the system-contracts and contested-resources screens *)
(***************************************************************************)
\* Bound: the number of contested resources of a batch.
MaxBatch == 2

\* The values a contested resource can hold.
ResourceValues == {"alice", "bob"}

RECURSIVE SeqsUpTo(_, _)
SeqsUpTo(S, n) ==
    IF n = 0 THEN {<<>>}
    ELSE LET shorter == SeqsUpTo(S, n - 1)
         IN shorter \cup {Append(s, x) : s \in {t \in shorter : Len(t) = n - 1}, x \in S}

Batches == SeqsUpTo(ResourceValues, MaxBatch)

\* contested_resources.rs:92, 113: as_toml renders a value as a TOML text.
AsToml(value) ==
    CASE value = "alice" -> "value = 'alice'"
      [] value = "bob" -> "value = 'bob'"

\* Vec::get: the element at a zero-based index, if there is one.
Get(vec, index) ==
    IF index < Len(vec) THEN Some(vec[index + 1]) ELSE None

\* contested_resources.rs:87-95, 107-116: the text of the resource view for
\* the resource at an index, the empty string when there is none.
ResourceViewText(batch, index) ==
    IF IsSome(Get(batch, index)) THEN AsToml(Unwrap(Get(batch, index))) ELSE ""

\* contested_resources.rs:206, 215: List::perform(Cmd::Move(..)) of a
\* scrollable list without rewind.
MoveDown(index, len) == IF index + 1 < len THEN index + 1 ELSE index
MoveUp(index) == IF index > 0 THEN index - 1 ELSE index

ScreenKey(key) ==
    [type |-> "Key", key |-> key, kind |-> "", task |-> "", result |-> <<"", "">>]
ScreenBackend(kind, task, result) ==
    [type |-> "Backend", key |-> "", kind |-> kind, task |-> task, result |-> result]

ContractTasks == {"FetchDashpayContract", "FetchDPNSContract"}
QueryVoteContenders == "QueryVoteContenders"
CompletionKinds == {"TaskCompleted", "TaskCompletedStateChange"}
ExecutionResults ==
    {Ok("ContestedResourceContenders"), Ok("Other"), Err("execution error")}

ScreenFeedbackNone == <<"None">>
ScreenFeedbackRedraw == <<"Redraw">>
ScreenFeedbackPreviousScreen == <<"PreviousScreen">>
ScreenFeedbackTask(task, blocking) == <<"Task", task, blocking>>
ScreenFeedbackForm == <<"Form", "ContestedResourceVoteFormController">>

\* fetch_contract.rs:32
InfoFixed == "Fetch system contracts"

\* fetch_contract.rs:92-94: the success text replaces the payload, an error
\* is shown as it is.
InfoNewFromResult(result) ==
    IF result[1] = "Ok" THEN "Successfully fetched a contract"
    ELSE "Error: " \o result[2]

Displayed == <<info, current_batch, list_index, resource_view>>

ScreensUnchanged == UNCHANGED <<startup_vars, loop_vars, fetch_vars, strategy_vars>>

\* on_event returns: the event and the feedback are recorded, and whether
\* the displayed contents changed.
Returns(ev, feedback) ==
    /\ screen_event' = Some(ev)
    /\ screen_feedback' = Some(feedback)
    /\ screen_changed' = (Displayed' # Displayed)

\* fetch_contract.rs:30-34
OpenFetchSystemContractScreen ==
    /\ screen_kind = "none"
    /\ screen_pc = "running"
    /\ screen_kind' = "fetch_contract"
    /\ info' = InfoFixed
    /\ current_batch' = <<>>
    /\ list_index' = 0
    /\ resource_view' = ""
    /\ screen_event' = None
    /\ screen_feedback' = None
    /\ screen_changed' = FALSE
    /\ screen_task' = None
    /\ UNCHANGED <<has_contested_index, screen_pc>>
    /\ ScreensUnchanged

\* contested_resources.rs:60-104
OpenContestedResourcesScreen(batch, contested_index) ==
    /\ screen_kind = "none"
    /\ screen_pc = "running"
    /\ screen_kind' = "contested_resources"
    /\ info' = "none"
    /\ current_batch' = batch
    /\ list_index' = 0
    /\ resource_view' = ResourceViewText(batch, 0)
    /\ has_contested_index' = contested_index
    /\ screen_event' = None
    /\ screen_feedback' = None
    /\ screen_changed' = FALSE
    /\ screen_task' = None
    /\ UNCHANGED screen_pc
    /\ ScreensUnchanged

OnScreen(kind) == screen_kind = kind /\ screen_pc = "running"

\* fetch_contract.rs:56-65, contested_resources.rs:156-159: 'q' returns
\* PreviousScreen, and the UI leaves the screen.
KeyQuit ==
    /\ screen_kind \in {"fetch_contract", "contested_resources"}
    /\ screen_pc = "running"
    /\ screen_kind' = "none"
    /\ screen_task' = None
    /\ UNCHANGED <<info, current_batch, list_index, resource_view,
                   has_contested_index, screen_pc>>
    /\ Returns(ScreenKey("q"), ScreenFeedbackPreviousScreen)
    /\ ScreensUnchanged

\* fetch_contract.rs:66-79: 'p' and 'n' dispatch the fetch of a system contract.
KeyFetchContract(key) ==
    /\ OnScreen("fetch_contract")
    /\ key \in {"p", "n"}
    /\ UNCHANGED <<screen_kind, info, current_batch, list_index, resource_view,
                   has_contested_index, screen_pc>>
    /\ LET task == IF key = "p" THEN "FetchDashpayContract" ELSE "FetchDPNSContract"
       IN /\ screen_task' = Some(task)
          /\ Returns(ScreenKey(key), ScreenFeedbackTask(task, TRUE))
    /\ ScreensUnchanged

\* fetch_contract.rs:81-96: a Contract task completed, in either form.
ContractTaskCompleted(kind, result) ==
    /\ OnScreen("fetch_contract")
    /\ IsSome(screen_task)
    /\ info' = InfoNewFromResult(result)
    /\ screen_task' = None
    /\ UNCHANGED <<screen_kind, current_batch, list_index, resource_view,
                   has_contested_index, screen_pc>>
    /\ Returns(ScreenBackend(kind, Unwrap(screen_task), result), ScreenFeedbackRedraw)
    /\ ScreensUnchanged

\* fetch_contract.rs:97: any other event.
FetchContractOtherEvent(key) ==
    /\ OnScreen("fetch_contract")
    /\ key \in {"v", "Down", "Up", "C-n", "C-p", "x"}
    /\ UNCHANGED <<screen_kind, info, current_batch, list_index, resource_view,
                   has_contested_index, screen_pc, screen_task>>
    /\ Returns(ScreenKey(key), ScreenFeedbackNone)
    /\ ScreensUnchanged

\* contested_resources.rs:119-128
GetSelectedResource == Get(current_batch, list_index)

\* contested_resources.rs:161-187: 'v' dispatches the contenders query for
\* the selected resource; both expect() calls panic on None.
KeyVote ==
    /\ OnScreen("contested_resources")
    /\ UNCHANGED <<screen_kind, info, current_batch, list_index, resource_view,
                   has_contested_index>>
    /\ IF IsSome(GetSelectedResource) /\ has_contested_index
       THEN /\ screen_task' = Some(QueryVoteContenders)
            /\ Returns(ScreenKey("v"), ScreenFeedbackTask(QueryVoteContenders, TRUE))
            /\ UNCHANGED screen_pc
       ELSE /\ screen_pc' = "panicked"
            /\ screen_event' = Some(ScreenKey("v"))
            /\ screen_feedback' = None
            /\ UNCHANGED <<screen_task, screen_changed>>
    /\ ScreensUnchanged

\* contested_resources.rs:190-198: Down and Up scroll the resource view,
\* which moves or is at its end already.
KeyScroll(key, scrolled) ==
    /\ OnScreen("contested_resources")
    /\ key \in {"Down", "Up"}
    /\ screen_event' = Some(ScreenKey(key))
    /\ screen_feedback' = Some(ScreenFeedbackRedraw)
    /\ screen_changed' = scrolled
    /\ UNCHANGED <<screen_kind, info, current_batch, list_index, resource_view,
                   has_contested_index, screen_pc, screen_task>>
    /\ ScreensUnchanged

\* contested_resources.rs:201-218: C-n and C-p move the selection and
\* reload the resource view.
KeySelect(key) ==
    /\ OnScreen("contested_resources")
    /\ key \in {"C-n", "C-p"}
    /\ list_index' = IF key = "C-n" THEN MoveDown(list_index, Len(current_batch))
                     ELSE MoveUp(list_index)
    /\ resource_view' = ResourceViewText(current_batch, list_index')
    /\ UNCHANGED <<screen_kind, info, current_batch, has_contested_index,
                   screen_pc, screen_task>>
    /\ Returns(ScreenKey(key), ScreenFeedbackRedraw)
    /\ ScreensUnchanged

\* contested_resources.rs:221-230: only TaskCompleted with the contenders
\* payload opens the vote form; every other completion falls to `_`.
QueryVoteContendersCompleted(kind, result) ==
    /\ OnScreen("contested_resources")
    /\ screen_task = Some(QueryVoteContenders)
    /\ screen_task' = None
    /\ UNCHANGED <<screen_kind, info, current_batch, list_index, resource_view,
                   has_contested_index, screen_pc>>
    /\ Returns(ScreenBackend(kind, QueryVoteContenders, result),
               IF kind = "TaskCompleted" /\ result = Ok("ContestedResourceContenders")
               THEN ScreenFeedbackForm
               ELSE ScreenFeedbackNone)
    /\ ScreensUnchanged

\* contested_resources.rs:230: any other event.
ContestedResourcesOtherEvent(key) ==
    /\ OnScreen("contested_resources")
    /\ key \in {"p", "n", "x"}
    /\ UNCHANGED <<screen_kind, info, current_batch, list_index, resource_view,
                   has_contested_index, screen_pc, screen_task>>
    /\ Returns(ScreenKey(key), ScreenFeedbackNone)
    /\ ScreensUnchanged

ScreensInit ==
    /\ LoopLocalsInit
    /\ UiLaunched
    /\ FetchIdle
    /\ ScreenIdle
    /\ StrategyIdle

ScreensNext ==
    \/ OpenFetchSystemContractScreen
    \/ \E batch \in Batches, contested_index \in BOOLEAN :
          OpenContestedResourcesScreen(batch, contested_index)
    \/ KeyQuit
    \/ \E key \in {"p", "n"} : KeyFetchContract(key)
    \/ \E kind \in CompletionKinds, result \in ExecutionResults :
          ContractTaskCompleted(kind, result)
    \/ \E key \in {"v", "Down", "Up", "C-n", "C-p", "x"} : FetchContractOtherEvent(key)
    \/ KeyVote
    \/ \E key \in {"Down", "Up"}, scrolled \in BOOLEAN : KeyScroll(key, scrolled)
    \/ \E key \in {"C-n", "C-p"} : KeySelect(key)
    \/ \E kind \in CompletionKinds, result \in ExecutionResults :
          QueryVoteContendersCompleted(kind, result)
    \/ \E key \in {"p", "n", "x"} : ContestedResourcesOtherEvent(key)

SpecScreens == ScreensInit /\ [][ScreensNext]_vars

\* The last event was the failed completion of a task the screen dispatched.
FailedCompletion ==
    /\ IsSome(screen_event)
    /\ Unwrap(screen_event).type = "Backend"
    /\ Unwrap(screen_event).result[1] = "Err"

DisplaysError ==
    /\ screen_kind = "fetch_contract"
    /\ info = "Error: " \o Unwrap(screen_event).result[2]

\* C17 (failed tasks are visible): after a screen handled the failed
\* completion of a task it dispatched, it displays an error and the
\* feedback it returned causes a render; the feedback is never None with
\* the screen unchanged. For the system-contracts and the
\* contested-resources screen.
C17_FailedTasksVisible ==
    FailedCompletion =>
        /\ DisplaysError
        /\ screen_feedback # Some(ScreenFeedbackNone)

\* The case is handled as the claim says on the system-contracts screen.
C17_FetchContractVisible ==
    (FailedCompletion /\ screen_kind = "fetch_contract") =>
        /\ DisplaysError
        /\ screen_feedback = Some(ScreenFeedbackRedraw)

(***************************************************************************)
(* backend::strategies::run_strategy_task: the block loop of a strategy run *)
(***************************************************************************)
\* Bounds: blocks of a run, addresses of the configured address list.
MaxBlocks == 10
MaxAddresses == 2

\* main.rs:180: args.blocks: no block, one, the ten of the scenario, the
\* largest run.
BlockCounts == {0, 1, 10, MaxBlocks}
\* main.rs:85: config.dapi_address_list()
AddressCounts == 1..MaxAddresses

\* The address of the next attempt on a block: the one after those tried.
NextAddress(attempted) == Len(attempted) + 1

\* Mutant: the first transport failure of a block is recorded at once.
FailsOnFirstError(attempted, addresses) == Len(attempted) >= 1

\* A block is recorded as failed once every address has been tried for it.
AddressesExhausted(attempted, addresses) == Len(attempted) = addresses

StrategyUnchanged == UNCHANGED <<startup_vars, loop_vars, fetch_vars, screen_vars>>

\* main.rs:176-182: the run is asked for by name and number of blocks; an
\* unknown name aborts it, no block ends it at once.
RunStrategyTask(known, blocks, addresses) ==
    /\ run_state = "Idle"
    /\ strategy_known' = known
    /\ block_count' = blocks
    /\ address_count' = addresses
    /\ tried' = <<>>
    /\ block_pc' = "submit"
    /\ IF ~known
       THEN run_state' = "Aborted" /\ block' = 0
       ELSE IF blocks = 0
            THEN run_state' = "Done" /\ block' = 0
            ELSE run_state' = "Running" /\ block' = 1
    /\ UNCHANGED <<failed, executed>>
    /\ StrategyUnchanged

\* The operations of the block are submitted to the next address and
\* confirmed.
SubmitBlockSucceeds ==
    /\ run_state = "Running"
    /\ block_pc = "submit"
    /\ Len(tried) < address_count
    /\ tried' = Append(tried, NextAddress(tried))
    /\ executed' = executed \cup {block}
    /\ block_pc' = "advance"
    /\ UNCHANGED <<run_state, strategy_known, block_count, address_count,
                   block, failed>>
    /\ StrategyUnchanged

\* The submission meets a transport failure: the block is retried against
\* the next address, or recorded as failed when there is none left.
SubmitBlockTransportFailure ==
    /\ run_state = "Running"
    /\ block_pc = "submit"
    /\ Len(tried) < address_count
    /\ tried' = Append(tried, NextAddress(tried))
    /\ executed' = executed \cup {block}
    /\ IF AddressesExhausted(tried', address_count)
       THEN failed' = failed \cup {block} /\ block_pc' = "advance"
       ELSE failed' = failed /\ block_pc' = "submit"
    /\ UNCHANGED <<run_state, strategy_known, block_count, address_count, block>>
    /\ StrategyUnchanged

\* The loop goes on to the next block, or the run is done.
AdvanceBlock ==
    /\ run_state = "Running"
    /\ block_pc = "advance"
    /\ IF block < block_count
       THEN /\ block' = block + 1
            /\ tried' = <<>>
            /\ block_pc' = "submit"
            /\ run_state' = run_state
       ELSE /\ run_state' = "Done"
            /\ UNCHANGED <<block, tried, block_pc>>
    /\ UNCHANGED <<strategy_known, block_count, address_count, failed, executed>>
    /\ StrategyUnchanged

StrategyInit ==
    /\ LoopLocalsInit
    /\ UiLaunched
    /\ FetchIdle
    /\ ScreenIdle
    /\ StrategyIdle

StrategyNext ==
    \/ \E known \in BOOLEAN, blocks \in BlockCounts, addresses \in AddressCounts :
          RunStrategyTask(known, blocks, addresses)
    \/ SubmitBlockSucceeds
    \/ SubmitBlockTransportFailure
    \/ AdvanceBlock

SpecStrategy == StrategyInit /\ [][StrategyNext]_vars

\* Every remote call of the run resolves (the requests carry a timeout,
\* main.rs:88-89), so the loop always takes its next step.
SpecStrategyFair == SpecStrategy /\ WF_vars(StrategyNext)

NoDuplicates(s) == \A i, j \in 1..Len(s) : s[i] = s[j] => i = j

\* C18 (strategy run retry and partial failure): the attempts on a block go
\* to distinct addresses, at most one per address; a block is recorded as
\* failed only by a transport failure on the last untried address, after
\* one attempt on each of the A addresses (A - 1 retries); a recorded
\* failure never aborts the run: a run that started ends in Done, with
\* every block 1..N executed and the failures recorded.
C18_RetryAndPartialFailure ==
    /\ [](/\ Len(tried) <= address_count
          /\ NoDuplicates(tried)
          /\ \A k \in 1..Len(tried) : tried[k] \in 1..address_count
          /\ failed \subseteq executed
          /\ run_state = "Aborted" => (~strategy_known /\ executed = {})
          /\ run_state \in {"Running", "Done"} => strategy_known
          /\ run_state = "Done" => executed = 1..block_count)
    /\ [][\A b \in failed' \ failed :
             /\ b = block
             /\ run_state' = "Running"
             /\ Len(tried') = address_count
             /\ Len(tried') = Len(tried) + 1]_vars
    /\ [](run_state = "Running" => <>(run_state = "Done"))

\* Ten blocks, two addresses, block 3 failed on both: the run is done and
\* the blocks 4 to 10 were executed.
C18_Witness ==
    /\ run_state = "Done"
    /\ block_count = 10
    /\ address_count = 2
    /\ failed = {3}
    /\ executed = 1..10

(***************************************************************************)
(* Claims about the 'v' key and about the balance given to the UI          *)
(***************************************************************************)
\* C22 (no crash on a key press): on the contested-resources screen, in
\* every state, the one created with an empty batch included, handling 'v'
\* does not panic and returns a feedback, which is the QueryVoteContenders
\* task with block: true when a resource is selected.
C22_VoteKeyNeverPanics ==
    /\ screen_pc = "running"
    /\ (screen_kind = "contested_resources" /\ screen_event = Some(ScreenKey("v"))) =>
         /\ IsSome(screen_feedback)
         /\ IsSome(GetSelectedResource) =>
               screen_feedback = Some(ScreenFeedbackTask(QueryVoteContenders, TRUE))

\* The balance of the loaded identity in the shared state, as Ui::new takes it.
CurrentIdentityBalance ==
    IF IsSome(loaded_identity)
    THEN Some(FromCredits(Unwrap(loaded_identity).balance))
    ELSE None

\* C23 (balance at launch): the balance given to Ui::new is the balance of
\* the loaded identity in the shared state when the UI loop starts, also
\* after a funding precheck that registered, refreshed or topped up the
\* identity; the UI is launched exactly when no strategy name was given.
C23_UiBalanceAtLaunch ==
    /\ pc = "ui" => ui_launched_with = Some(CurrentIdentityBalance)
    /\ IsSome(ui_launched_with) => (args_test = None /\ pc = "ui")
    /\ pc = "returned" => IsSome(args_test)

(***************************************************************************)
(* The main loop with the debounce timer's clock: main.rs:197-239.         *)
(* Time is counted from the last arming of the timer, and no bound is put  *)
(* on the feedbacks the UI returns; the history variables stay as they are. *)
(***************************************************************************)
history_vars ==
    <<dispatched, delivered, pending_futures, last_redraw_at, bursts,
      redraws_in_burst, timer_renders>>

\* What ui.on_event can return.
AllUiFeedbacks ==
    {FeedbackNone, FeedbackQuit, FeedbackRedraw}
    \cup {FeedbackExecuteTask(t) : t \in UiTasks}

\* Mutant: the redraw done for an ExecuteTask feedback takes the place of
\* the debounced one, the timer is dropped.
ClockApplyFeedbackDropsTimer(fb, task_after, render) ==
    /\ ui_feedback' = Some(fb)
    /\ IF fb = FeedbackQuit
       THEN active' = FALSE /\ Goto("returned")
       ELSE UNCHANGED <<active, pc>>
    /\ IF fb[1] = "ExecuteTask"
       THEN /\ backend_task' = ReplaceBackendTask(task_after, 1, fb[2])
            /\ rendered' = "execute_task"
       ELSE /\ backend_task' = task_after
            /\ rendered' = render
    /\ IF fb = FeedbackRedraw
       THEN /\ ui_debounced_redraw' = ArmDebounce(ui_debounced_redraw, 0)
            /\ now' = 0
       ELSE /\ ui_debounced_redraw' =
                 IF fb[1] = "ExecuteTask" THEN None ELSE ui_debounced_redraw
            /\ now' = now

\* main.rs:223-238: the match on ui_feedback; a Redraw feedback arms a new
\* sleep, from which the time is counted.
ClockApplyFeedback(fb, task_after, render) ==
    /\ ui_feedback' = Some(fb)
    /\ IF fb = FeedbackQuit
       THEN active' = FALSE /\ Goto("returned")
       ELSE UNCHANGED <<active, pc>>
    /\ IF fb[1] = "ExecuteTask"
       THEN /\ backend_task' = ReplaceBackendTask(task_after, 1, fb[2])
            /\ rendered' = "execute_task"
       ELSE /\ backend_task' = task_after
            /\ rendered' = render
    /\ IF fb = FeedbackRedraw
       THEN /\ ui_debounced_redraw' = ArmDebounce(ui_debounced_redraw, 0)
            /\ now' = 0
       ELSE UNCHANGED <<ui_debounced_redraw, now>>

ClockUnchanged ==
    UNCHANGED <<other_vars, history_vars, args_dash, args_test, overflow_checks,
                loaded_identity, known_identities, selected_strategy, guards,
                persisted, initial_identity_balance, running, issued,
                completed, balance, ui_launched_with>>

\* A millisecond passes while the timer is armed and not yet ready.
ClockTick ==
    /\ InLoop
    /\ Pending(ui_debounced_redraw)
    /\ ~TimerReady(Unwrap(ui_debounced_redraw), now)
    /\ now' = now + 1
    /\ UNCHANGED <<pc, active, backend_task, ui_debounced_redraw,
                   terminal_event, event, ui_feedback, forwarded, rendered>>
    /\ ClockUnchanged

\* main.rs:202-203: the stream ended or yielded an error.
ClockStreamFailure(item) ==
    /\ InLoop
    /\ item \in {ItemClosed, ItemError}
    /\ terminal_event' = Some(item)
    /\ Panic
    /\ UNCHANGED <<active, backend_task, ui_debounced_redraw, now, event,
                   ui_feedback, forwarded, rendered>>
    /\ ClockUnchanged

\* main.rs:204
ClockResize ==
    /\ InLoop
    /\ terminal_event' = Some(ItemResize)
    /\ rendered' = "resize"
    /\ event' = None
    /\ ui_feedback' = None
    /\ forwarded' = None
    /\ UNCHANGED <<pc, active, backend_task, ui_debounced_redraw, now>>
    /\ ClockUnchanged

\* main.rs:205, 213-215, 223-238
ClockKey(fb) ==
    /\ InLoop
    /\ terminal_event' = Some(ItemKey)
    /\ event' = Some(EventKey)
    /\ forwarded' = Some(EventKey)
    /\ ClockApplyFeedback(fb, backend_task, "no")
    /\ ClockUnchanged

\* main.rs:206, 220, 237
ClockOther ==
    /\ InLoop
    /\ terminal_event' = Some(ItemOther)
    /\ event' = None
    /\ forwarded' = None
    /\ ClockApplyFeedback(FeedbackNone, backend_task, "no")
    /\ ClockUnchanged

\* main.rs:208, 213-215, 223-238
ClockBackendTaskFinished(fb) ==
    /\ InLoop
    /\ Pending(backend_task)
    /\ terminal_event' = None
    /\ event' = Some(EventBackend(Unwrap(backend_task)))
    /\ forwarded' = Some(EventBackend(Unwrap(backend_task)))
    /\ ClockApplyFeedback(fb, Fused(backend_task), "no")
    /\ ClockUnchanged

\* main.rs:209, 216-219
ClockDebounceTimeout ==
    /\ InLoop
    /\ Pending(ui_debounced_redraw)
    /\ TimerReady(Unwrap(ui_debounced_redraw), now)
    /\ terminal_event' = None
    /\ event' = Some(EventRedrawDebounceTimeout)
    /\ forwarded' = None
    /\ ui_feedback' = Some(FeedbackNone)
    /\ rendered' = "debounce"
    /\ ui_debounced_redraw' = Fused(ui_debounced_redraw)
    /\ UNCHANGED <<pc, active, backend_task, now>>
    /\ ClockUnchanged

RedrawNext ==
    \/ ClockTick
    \/ \E item \in {ItemClosed, ItemError} : ClockStreamFailure(item)
    \/ ClockResize
    \/ \E fb \in AllUiFeedbacks : ClockKey(fb)
    \/ ClockOther
    \/ \E fb \in AllUiFeedbacks : ClockBackendTaskFinished(fb)
    \/ ClockDebounceTimeout

SpecRedraw == Init /\ [][RedrawNext]_vars

\* Time passes, and select! takes the timer branch of a timer that stays
\* ready: it picks among the ready branches at random.
SpecRedrawFair ==
    SpecRedraw /\ WF_vars(ClockTick) /\ WF_vars(ClockDebounceTimeout)

RedrawRequested == pc = "ui" /\ ui_feedback = Some(FeedbackRedraw)

DebounceRendered ==
    /\ event = Some(EventRedrawDebounceTimeout)
    /\ rendered = "debounce"

\* A Redraw feedback has armed the timer and no time has passed since.
JustArmed ==
    /\ RedrawRequested
    /\ Pending(ui_debounced_redraw)
    /\ now = 0

====
